---------------------------- MODULE Spec2Model ----------------------------
(***************************************************************************)
(* Model of scripts/sentiment_engine.py: the sentiment pipeline            *)
(* (run_full_pipeline), its language classifier (detect_language), its     *)
(* platform attribution, its per-platform aggregation and the history      *)
(* appender (update_history), beside update_csv of scripts/mock_streamer.py *)
(* on the comment table.                                                   *)
(*                                                                         *)
(* Texts are sequences of Unicode code points.  Percentages are binary     *)
(* doubles, held as a significand of 53 bits and an exponent, and every    *)
(* operation on them rounds as the double operation does; a rounded value  *)
(* with d decimals is the integer value * 10^d.                            *)
(***************************************************************************)
EXTENDS Integers, Sequences, FiniteSets, TLC

VARIABLES
    \* ---- input files and collaborators ----
    comments_file,   \* synthetic_comments_data.csv
    posts_files,     \* platform -> its <platform>_organic_posts.csv
    sentiment_pipe,  \* the inference collaborator: comment_text -> raw result
    stream_df,       \* the frame update_csv of the streamer holds, if any
    \* ---- output files ----
    detailed_file,   \* OUTPUT_FILE_DETAILED
    summary_file,    \* OUTPUT_FILE_SUMMARY
    history_file,    \* OUTPUT_FILE_HISTORY
    \* ---- one run of run_full_pipeline ----
    pc,              \* the statement the run is at
    steps,           \* the steps the run has completed, in order
    df,              \* the data frame
    post_to_platform,\* the registry dict
    summary_data,    \* the summary list
    run_start,       \* the three output files as they were when the run began
    seen,            \* the comment table as the run found it when it loaded
    \* ---- update_history, one activation per process ----
    uh_pc,           \* process -> the statement its activation is at
    uh_arg,          \* process -> the summary_data argument
    file_exists,     \* process -> local file_exists
    timestamp,       \* process -> local timestamp
    uh_entry,        \* process -> history_file as it was when the call began
    overlapped       \* TRUE once two activations have been active together

inVars   == <<comments_file, posts_files, sentiment_pipe, stream_df>>
outVars  == <<detailed_file, summary_file>>
runVars  == <<pc, steps, df, post_to_platform, summary_data, run_start,
             seen>>
uhVars   == <<uh_pc, uh_arg, file_exists, timestamp, uh_entry, overlapped>>
vars == <<inVars, outVars, history_file, runVars, uhVars>>

(***************************************************************************)
(* Bounds of the model.                                                    *)
(***************************************************************************)
MaxHead        == 3   \* free tokens at the start of a classified text
MaxFill        == 5   \* filler tokens that may follow them
MaxGroup       == 10  \* comments in one platform group
NumPostIds     == 2   \* post ids 1..NumPostIds may appear in listings
MaxAttrRows    == 1   \* rows of the frame whose posts are attributed
MaxComments    == 1   \* rows of the comment table of a pipeline run
MaxFrameRows   == 2   \* rows of a frame summarised for a lone history call
MaxClock       == 3   \* datetime.now() returns one of the instants 0..MaxClock
TicksPerMinute == 2   \* instants that share one minute

(***************************************************************************)
(* detect_language: character tests and string functions.                  *)
(***************************************************************************)
\* str.isspace(): the characters str.strip() and str.split() treat as blank.
Whitespace ==
    {9, 10, 11, 12, 13, 28, 29, 30, 31, 32, 133, 160, 5760} \cup (8192..8202)
        \cup {8232, 8233, 8239, 8287, 12288}

\* text_str.strip()
RECURSIVE LStrip(_)
LStrip(s) == IF s # <<>> /\ Head(s) \in Whitespace THEN LStrip(Tail(s)) ELSE s

RECURSIVE RStrip(_)
RStrip(s) ==
    IF s # <<>> /\ s[Len(s)] \in Whitespace
    THEN RStrip(SubSeq(s, 1, Len(s) - 1))
    ELSE s

Strip(s) == RStrip(LStrip(s))

\* [0-9]
IsDigit(c) == c \in 48..57

\* The literal three-character alternatives of emoji_pattern: outside a
\* character class "\U0001F600-\U0001F64F" is the emoji U+1F600, a hyphen
\* and the emoji U+1F64F, in that order.
EmojiLiterals ==
    { <<128512, 45, 128591>>, <<127744, 45, 128511>>, <<128640, 45, 128767>>,
      <<127456, 45, 127487>>, <<9986, 45, 10160>>,    <<9410, 45, 127569>>,
      <<129280, 45, 129535>>, <<129536, 45, 129647>> }

\* End of the maximal run of digits that starts at s[i].
RECURSIVE DigitRunEnd(_, _)
DigitRunEnd(s, i) ==
    IF i < Len(s) /\ IsDigit(s[i + 1]) THEN DigitRunEnd(s, i + 1) ELSE i

\* Length of the match of emoji_pattern at position i of s, 0 if none.
MatchLen(s, i) ==
    IF IsDigit(s[i])
       /\ DigitRunEnd(s, i) < Len(s)
       /\ s[DigitRunEnd(s, i) + 1] = 46
    THEN DigitRunEnd(s, i) + 2 - i
    ELSE IF i + 2 <= Len(s) /\ SubSeq(s, i, i + 2) \in EmojiLiterals
         THEN 3
         ELSE 0

\* re.sub(emoji_pattern, '', s), scanning from position i.
RECURSIVE SubFrom(_, _)
SubFrom(s, i) ==
    IF i > Len(s) THEN <<>>
    ELSE IF MatchLen(s, i) > 0 THEN SubFrom(s, i + MatchLen(s, i))
         ELSE <<s[i]>> \o SubFrom(s, i + 1)

ReSubEmoji(s) == SubFrom(s, 1)

\* str.lower(), by the case tables of the interpreter (Unicode 14.0).
\* LowerRanges: <<first, last, stride, delta>> says that the characters first,
\* first + stride, ..., last lower to themselves plus delta.
LowerRanges ==
    {
      <<65, 90, 1, 32>>, <<192, 214, 1, 32>>, <<216, 222, 1, 32>>,
      <<256, 302, 2, 1>>, <<306, 310, 2, 1>>, <<313, 327, 2, 1>>,
      <<330, 374, 2, 1>>, <<376, 376, 1, -121>>, <<377, 381, 2, 1>>,
      <<385, 385, 1, 210>>, <<386, 388, 2, 1>>, <<390, 390, 1, 206>>,
      <<391, 391, 1, 1>>, <<393, 394, 1, 205>>, <<395, 395, 1, 1>>,
      <<398, 398, 1, 79>>, <<399, 399, 1, 202>>, <<400, 400, 1, 203>>,
      <<401, 401, 1, 1>>, <<403, 403, 1, 205>>, <<404, 404, 1, 207>>,
      <<406, 406, 1, 211>>, <<407, 407, 1, 209>>, <<408, 408, 1, 1>>,
      <<412, 412, 1, 211>>, <<413, 413, 1, 213>>, <<415, 415, 1, 214>>,
      <<416, 420, 2, 1>>, <<422, 422, 1, 218>>, <<423, 423, 1, 1>>,
      <<425, 425, 1, 218>>, <<428, 428, 1, 1>>, <<430, 430, 1, 218>>,
      <<431, 431, 1, 1>>, <<433, 434, 1, 217>>, <<435, 437, 2, 1>>,
      <<439, 439, 1, 219>>, <<440, 440, 1, 1>>, <<444, 444, 1, 1>>,
      <<452, 452, 1, 2>>, <<453, 453, 1, 1>>, <<455, 455, 1, 2>>,
      <<456, 456, 1, 1>>, <<458, 458, 1, 2>>, <<459, 475, 2, 1>>,
      <<478, 494, 2, 1>>, <<497, 497, 1, 2>>, <<498, 500, 2, 1>>,
      <<502, 502, 1, -97>>, <<503, 503, 1, -56>>, <<504, 542, 2, 1>>,
      <<544, 544, 1, -130>>, <<546, 562, 2, 1>>, <<570, 570, 1, 10795>>,
      <<571, 571, 1, 1>>, <<573, 573, 1, -163>>, <<574, 574, 1, 10792>>,
      <<577, 577, 1, 1>>, <<579, 579, 1, -195>>, <<580, 580, 1, 69>>,
      <<581, 581, 1, 71>>, <<582, 590, 2, 1>>, <<880, 882, 2, 1>>,
      <<886, 886, 1, 1>>, <<895, 895, 1, 116>>, <<902, 902, 1, 38>>,
      <<904, 906, 1, 37>>, <<908, 908, 1, 64>>, <<910, 911, 1, 63>>,
      <<913, 929, 1, 32>>, <<932, 939, 1, 32>>, <<975, 975, 1, 8>>,
      <<984, 1006, 2, 1>>, <<1012, 1012, 1, -60>>, <<1015, 1015, 1, 1>>,
      <<1017, 1017, 1, -7>>, <<1018, 1018, 1, 1>>, <<1021, 1023, 1, -130>>,
      <<1024, 1039, 1, 80>>, <<1040, 1071, 1, 32>>, <<1120, 1152, 2, 1>>,
      <<1162, 1214, 2, 1>>, <<1216, 1216, 1, 15>>, <<1217, 1229, 2, 1>>,
      <<1232, 1326, 2, 1>>, <<1329, 1366, 1, 48>>, <<4256, 4293, 1, 7264>>,
      <<4295, 4295, 1, 7264>>, <<4301, 4301, 1, 7264>>, <<5024, 5103, 1, 38864>>,
      <<5104, 5109, 1, 8>>, <<7312, 7354, 1, -3008>>, <<7357, 7359, 1, -3008>>,
      <<7680, 7828, 2, 1>>, <<7838, 7838, 1, -7615>>, <<7840, 7934, 2, 1>>,
      <<7944, 7951, 1, -8>>, <<7960, 7965, 1, -8>>, <<7976, 7983, 1, -8>>,
      <<7992, 7999, 1, -8>>, <<8008, 8013, 1, -8>>, <<8025, 8031, 2, -8>>,
      <<8040, 8047, 1, -8>>, <<8072, 8079, 1, -8>>, <<8088, 8095, 1, -8>>,
      <<8104, 8111, 1, -8>>, <<8120, 8121, 1, -8>>, <<8122, 8123, 1, -74>>,
      <<8124, 8124, 1, -9>>, <<8136, 8139, 1, -86>>, <<8140, 8140, 1, -9>>,
      <<8152, 8153, 1, -8>>, <<8154, 8155, 1, -100>>, <<8168, 8169, 1, -8>>,
      <<8170, 8171, 1, -112>>, <<8172, 8172, 1, -7>>, <<8184, 8185, 1, -128>>,
      <<8186, 8187, 1, -126>>, <<8188, 8188, 1, -9>>, <<8486, 8486, 1, -7517>>,
      <<8490, 8490, 1, -8383>>, <<8491, 8491, 1, -8262>>, <<8498, 8498, 1, 28>>,
      <<8544, 8559, 1, 16>>, <<8579, 8579, 1, 1>>, <<9398, 9423, 1, 26>>,
      <<11264, 11311, 1, 48>>, <<11360, 11360, 1, 1>>, <<11362, 11362, 1, -10743>>,
      <<11363, 11363, 1, -3814>>, <<11364, 11364, 1, -10727>>, <<11367, 11371, 2, 1>>,
      <<11373, 11373, 1, -10780>>, <<11374, 11374, 1, -10749>>, <<11375, 11375, 1, -10783>>,
      <<11376, 11376, 1, -10782>>, <<11378, 11378, 1, 1>>, <<11381, 11381, 1, 1>>,
      <<11390, 11391, 1, -10815>>, <<11392, 11490, 2, 1>>, <<11499, 11501, 2, 1>>,
      <<11506, 11506, 1, 1>>, <<42560, 42604, 2, 1>>, <<42624, 42650, 2, 1>>,
      <<42786, 42798, 2, 1>>, <<42802, 42862, 2, 1>>, <<42873, 42875, 2, 1>>,
      <<42877, 42877, 1, -35332>>, <<42878, 42886, 2, 1>>, <<42891, 42891, 1, 1>>,
      <<42893, 42893, 1, -42280>>, <<42896, 42898, 2, 1>>, <<42902, 42920, 2, 1>>,
      <<42922, 42922, 1, -42308>>, <<42923, 42923, 1, -42319>>, <<42924, 42924, 1, -42315>>,
      <<42925, 42925, 1, -42305>>, <<42926, 42926, 1, -42308>>, <<42928, 42928, 1, -42258>>,
      <<42929, 42929, 1, -42282>>, <<42930, 42930, 1, -42261>>, <<42931, 42931, 1, 928>>,
      <<42932, 42946, 2, 1>>, <<42948, 42948, 1, -48>>, <<42949, 42949, 1, -42307>>,
      <<42950, 42950, 1, -35384>>, <<42951, 42953, 2, 1>>, <<42960, 42960, 1, 1>>,
      <<42966, 42968, 2, 1>>, <<42997, 42997, 1, 1>>, <<65313, 65338, 1, 32>>,
      <<66560, 66599, 1, 40>>, <<66736, 66771, 1, 40>>, <<66928, 66938, 1, 39>>,
      <<66940, 66954, 1, 39>>, <<66956, 66962, 1, 39>>, <<66964, 66965, 1, 39>>,
      <<68736, 68786, 1, 64>>, <<71840, 71871, 1, 32>>, <<93760, 93791, 1, 32>>,
      <<125184, 125217, 1, 34>> }

\* Ranges <<first, last>> of the cased characters that are not case-ignorable.
CasedRanges ==
    {
      <<65, 90>>, <<97, 122>>, <<170, 170>>, <<181, 181>>, <<186, 186>>,
      <<192, 214>>, <<216, 246>>, <<248, 442>>, <<444, 447>>, <<452, 659>>,
      <<661, 687>>, <<880, 883>>, <<886, 887>>, <<891, 893>>, <<895, 895>>,
      <<902, 902>>, <<904, 906>>, <<908, 908>>, <<910, 929>>, <<931, 1013>>,
      <<1015, 1153>>, <<1162, 1327>>, <<1329, 1366>>, <<1376, 1416>>, <<4256, 4293>>,
      <<4295, 4295>>, <<4301, 4301>>, <<4304, 4346>>, <<4349, 4351>>, <<5024, 5109>>,
      <<5112, 5117>>, <<7296, 7304>>, <<7312, 7354>>, <<7357, 7359>>, <<7424, 7467>>,
      <<7531, 7543>>, <<7545, 7578>>, <<7680, 7957>>, <<7960, 7965>>, <<7968, 8005>>,
      <<8008, 8013>>, <<8016, 8023>>, <<8025, 8025>>, <<8027, 8027>>, <<8029, 8029>>,
      <<8031, 8061>>, <<8064, 8116>>, <<8118, 8124>>, <<8126, 8126>>, <<8130, 8132>>,
      <<8134, 8140>>, <<8144, 8147>>, <<8150, 8155>>, <<8160, 8172>>, <<8178, 8180>>,
      <<8182, 8188>>, <<8450, 8450>>, <<8455, 8455>>, <<8458, 8467>>, <<8469, 8469>>,
      <<8473, 8477>>, <<8484, 8484>>, <<8486, 8486>>, <<8488, 8488>>, <<8490, 8493>>,
      <<8495, 8500>>, <<8505, 8505>>, <<8508, 8511>>, <<8517, 8521>>, <<8526, 8526>>,
      <<8544, 8575>>, <<8579, 8580>>, <<9398, 9449>>, <<11264, 11387>>, <<11390, 11492>>,
      <<11499, 11502>>, <<11506, 11507>>, <<11520, 11557>>, <<11559, 11559>>, <<11565, 11565>>,
      <<42560, 42605>>, <<42624, 42651>>, <<42786, 42863>>, <<42865, 42887>>, <<42891, 42894>>,
      <<42896, 42954>>, <<42960, 42961>>, <<42963, 42963>>, <<42965, 42969>>, <<42997, 42998>>,
      <<43002, 43002>>, <<43824, 43866>>, <<43872, 43880>>, <<43888, 43967>>, <<64256, 64262>>,
      <<64275, 64279>>, <<65313, 65338>>, <<65345, 65370>>, <<66560, 66639>>, <<66736, 66771>>,
      <<66776, 66811>>, <<66928, 66938>>, <<66940, 66954>>, <<66956, 66962>>, <<66964, 66965>>,
      <<66967, 66977>>, <<66979, 66993>>, <<66995, 67001>>, <<67003, 67004>>, <<68736, 68786>>,
      <<68800, 68850>>, <<71840, 71903>>, <<93760, 93823>>, <<119808, 119892>>, <<119894, 119964>>,
      <<119966, 119967>>, <<119970, 119970>>, <<119973, 119974>>, <<119977, 119980>>, <<119982, 119993>>,
      <<119995, 119995>>, <<119997, 120003>>, <<120005, 120069>>, <<120071, 120074>>, <<120077, 120084>>,
      <<120086, 120092>>, <<120094, 120121>>, <<120123, 120126>>, <<120128, 120132>>, <<120134, 120134>>,
      <<120138, 120144>>, <<120146, 120485>>, <<120488, 120512>>, <<120514, 120538>>, <<120540, 120570>>,
      <<120572, 120596>>, <<120598, 120628>>, <<120630, 120654>>, <<120656, 120686>>, <<120688, 120712>>,
      <<120714, 120744>>, <<120746, 120770>>, <<120772, 120779>>, <<122624, 122633>>, <<122635, 122654>>,
      <<125184, 125251>>, <<127280, 127305>>, <<127312, 127337>>, <<127344, 127369>> }

\* Ranges <<first, last>> of the case-ignorable characters.
CaseIgnorableRanges ==
    {
      <<39, 39>>, <<46, 46>>, <<58, 58>>, <<94, 94>>, <<96, 96>>,
      <<168, 168>>, <<173, 173>>, <<175, 175>>, <<180, 180>>, <<183, 184>>,
      <<688, 879>>, <<884, 885>>, <<890, 890>>, <<900, 901>>, <<903, 903>>,
      <<1155, 1161>>, <<1369, 1369>>, <<1375, 1375>>, <<1425, 1469>>, <<1471, 1471>>,
      <<1473, 1474>>, <<1476, 1477>>, <<1479, 1479>>, <<1524, 1524>>, <<1536, 1541>>,
      <<1552, 1562>>, <<1564, 1564>>, <<1600, 1600>>, <<1611, 1631>>, <<1648, 1648>>,
      <<1750, 1757>>, <<1759, 1768>>, <<1770, 1773>>, <<1807, 1807>>, <<1809, 1809>>,
      <<1840, 1866>>, <<1958, 1968>>, <<2027, 2037>>, <<2042, 2042>>, <<2045, 2045>>,
      <<2070, 2093>>, <<2137, 2139>>, <<2184, 2184>>, <<2192, 2193>>, <<2200, 2207>>,
      <<2249, 2306>>, <<2362, 2362>>, <<2364, 2364>>, <<2369, 2376>>, <<2381, 2381>>,
      <<2385, 2391>>, <<2402, 2403>>, <<2417, 2417>>, <<2433, 2433>>, <<2492, 2492>>,
      <<2497, 2500>>, <<2509, 2509>>, <<2530, 2531>>, <<2558, 2558>>, <<2561, 2562>>,
      <<2620, 2620>>, <<2625, 2626>>, <<2631, 2632>>, <<2635, 2637>>, <<2641, 2641>>,
      <<2672, 2673>>, <<2677, 2677>>, <<2689, 2690>>, <<2748, 2748>>, <<2753, 2757>>,
      <<2759, 2760>>, <<2765, 2765>>, <<2786, 2787>>, <<2810, 2815>>, <<2817, 2817>>,
      <<2876, 2876>>, <<2879, 2879>>, <<2881, 2884>>, <<2893, 2893>>, <<2901, 2902>>,
      <<2914, 2915>>, <<2946, 2946>>, <<3008, 3008>>, <<3021, 3021>>, <<3072, 3072>>,
      <<3076, 3076>>, <<3132, 3132>>, <<3134, 3136>>, <<3142, 3144>>, <<3146, 3149>>,
      <<3157, 3158>>, <<3170, 3171>>, <<3201, 3201>>, <<3260, 3260>>, <<3263, 3263>>,
      <<3270, 3270>>, <<3276, 3277>>, <<3298, 3299>>, <<3328, 3329>>, <<3387, 3388>>,
      <<3393, 3396>>, <<3405, 3405>>, <<3426, 3427>>, <<3457, 3457>>, <<3530, 3530>>,
      <<3538, 3540>>, <<3542, 3542>>, <<3633, 3633>>, <<3636, 3642>>, <<3654, 3662>>,
      <<3761, 3761>>, <<3764, 3772>>, <<3782, 3782>>, <<3784, 3789>>, <<3864, 3865>>,
      <<3893, 3893>>, <<3895, 3895>>, <<3897, 3897>>, <<3953, 3966>>, <<3968, 3972>>,
      <<3974, 3975>>, <<3981, 3991>>, <<3993, 4028>>, <<4038, 4038>>, <<4141, 4144>>,
      <<4146, 4151>>, <<4153, 4154>>, <<4157, 4158>>, <<4184, 4185>>, <<4190, 4192>>,
      <<4209, 4212>>, <<4226, 4226>>, <<4229, 4230>>, <<4237, 4237>>, <<4253, 4253>>,
      <<4348, 4348>>, <<4957, 4959>>, <<5906, 5908>>, <<5938, 5939>>, <<5970, 5971>>,
      <<6002, 6003>>, <<6068, 6069>>, <<6071, 6077>>, <<6086, 6086>>, <<6089, 6099>>,
      <<6103, 6103>>, <<6109, 6109>>, <<6155, 6159>>, <<6211, 6211>>, <<6277, 6278>>,
      <<6313, 6313>>, <<6432, 6434>>, <<6439, 6440>>, <<6450, 6450>>, <<6457, 6459>>,
      <<6679, 6680>>, <<6683, 6683>>, <<6742, 6742>>, <<6744, 6750>>, <<6752, 6752>>,
      <<6754, 6754>>, <<6757, 6764>>, <<6771, 6780>>, <<6783, 6783>>, <<6823, 6823>>,
      <<6832, 6862>>, <<6912, 6915>>, <<6964, 6964>>, <<6966, 6970>>, <<6972, 6972>>,
      <<6978, 6978>>, <<7019, 7027>>, <<7040, 7041>>, <<7074, 7077>>, <<7080, 7081>>,
      <<7083, 7085>>, <<7142, 7142>>, <<7144, 7145>>, <<7149, 7149>>, <<7151, 7153>>,
      <<7212, 7219>>, <<7222, 7223>>, <<7288, 7293>>, <<7376, 7378>>, <<7380, 7392>>,
      <<7394, 7400>>, <<7405, 7405>>, <<7412, 7412>>, <<7416, 7417>>, <<7468, 7530>>,
      <<7544, 7544>>, <<7579, 7679>>, <<8125, 8125>>, <<8127, 8129>>, <<8141, 8143>>,
      <<8157, 8159>>, <<8173, 8175>>, <<8189, 8190>>, <<8203, 8207>>, <<8216, 8217>>,
      <<8228, 8228>>, <<8231, 8231>>, <<8234, 8238>>, <<8288, 8292>>, <<8294, 8303>>,
      <<8305, 8305>>, <<8319, 8319>>, <<8336, 8348>>, <<8400, 8432>>, <<11388, 11389>>,
      <<11503, 11505>>, <<11631, 11631>>, <<11647, 11647>>, <<11744, 11775>>, <<11823, 11823>>,
      <<12293, 12293>>, <<12330, 12333>>, <<12337, 12341>>, <<12347, 12347>>, <<12441, 12446>>,
      <<12540, 12542>>, <<40981, 40981>>, <<42232, 42237>>, <<42508, 42508>>, <<42607, 42610>>,
      <<42612, 42621>>, <<42623, 42623>>, <<42652, 42655>>, <<42736, 42737>>, <<42752, 42785>>,
      <<42864, 42864>>, <<42888, 42890>>, <<42994, 42996>>, <<43000, 43001>>, <<43010, 43010>>,
      <<43014, 43014>>, <<43019, 43019>>, <<43045, 43046>>, <<43052, 43052>>, <<43204, 43205>>,
      <<43232, 43249>>, <<43263, 43263>>, <<43302, 43309>>, <<43335, 43345>>, <<43392, 43394>>,
      <<43443, 43443>>, <<43446, 43449>>, <<43452, 43453>>, <<43471, 43471>>, <<43493, 43494>>,
      <<43561, 43566>>, <<43569, 43570>>, <<43573, 43574>>, <<43587, 43587>>, <<43596, 43596>>,
      <<43632, 43632>>, <<43644, 43644>>, <<43696, 43696>>, <<43698, 43700>>, <<43703, 43704>>,
      <<43710, 43711>>, <<43713, 43713>>, <<43741, 43741>>, <<43756, 43757>>, <<43763, 43764>>,
      <<43766, 43766>>, <<43867, 43871>>, <<43881, 43883>>, <<44005, 44005>>, <<44008, 44008>>,
      <<44013, 44013>>, <<64286, 64286>>, <<64434, 64450>>, <<65024, 65039>>, <<65043, 65043>>,
      <<65056, 65071>>, <<65106, 65106>>, <<65109, 65109>>, <<65279, 65279>>, <<65287, 65287>>,
      <<65294, 65294>>, <<65306, 65306>>, <<65342, 65342>>, <<65344, 65344>>, <<65392, 65392>>,
      <<65438, 65439>>, <<65507, 65507>>, <<65529, 65531>>, <<66045, 66045>>, <<66272, 66272>>,
      <<66422, 66426>>, <<67456, 67461>>, <<67463, 67504>>, <<67506, 67514>>, <<68097, 68099>>,
      <<68101, 68102>>, <<68108, 68111>>, <<68152, 68154>>, <<68159, 68159>>, <<68325, 68326>>,
      <<68900, 68903>>, <<69291, 69292>>, <<69446, 69456>>, <<69506, 69509>>, <<69633, 69633>>,
      <<69688, 69702>>, <<69744, 69744>>, <<69747, 69748>>, <<69759, 69761>>, <<69811, 69814>>,
      <<69817, 69818>>, <<69821, 69821>>, <<69826, 69826>>, <<69837, 69837>>, <<69888, 69890>>,
      <<69927, 69931>>, <<69933, 69940>>, <<70003, 70003>>, <<70016, 70017>>, <<70070, 70078>>,
      <<70089, 70092>>, <<70095, 70095>>, <<70191, 70193>>, <<70196, 70196>>, <<70198, 70199>>,
      <<70206, 70206>>, <<70367, 70367>>, <<70371, 70378>>, <<70400, 70401>>, <<70459, 70460>>,
      <<70464, 70464>>, <<70502, 70508>>, <<70512, 70516>>, <<70712, 70719>>, <<70722, 70724>>,
      <<70726, 70726>>, <<70750, 70750>>, <<70835, 70840>>, <<70842, 70842>>, <<70847, 70848>>,
      <<70850, 70851>>, <<71090, 71093>>, <<71100, 71101>>, <<71103, 71104>>, <<71132, 71133>>,
      <<71219, 71226>>, <<71229, 71229>>, <<71231, 71232>>, <<71339, 71339>>, <<71341, 71341>>,
      <<71344, 71349>>, <<71351, 71351>>, <<71453, 71455>>, <<71458, 71461>>, <<71463, 71467>>,
      <<71727, 71735>>, <<71737, 71738>>, <<71995, 71996>>, <<71998, 71998>>, <<72003, 72003>>,
      <<72148, 72151>>, <<72154, 72155>>, <<72160, 72160>>, <<72193, 72202>>, <<72243, 72248>>,
      <<72251, 72254>>, <<72263, 72263>>, <<72273, 72278>>, <<72281, 72283>>, <<72330, 72342>>,
      <<72344, 72345>>, <<72752, 72758>>, <<72760, 72765>>, <<72767, 72767>>, <<72850, 72871>>,
      <<72874, 72880>>, <<72882, 72883>>, <<72885, 72886>>, <<73009, 73014>>, <<73018, 73018>>,
      <<73020, 73021>>, <<73023, 73029>>, <<73031, 73031>>, <<73104, 73105>>, <<73109, 73109>>,
      <<73111, 73111>>, <<73459, 73460>>, <<78896, 78904>>, <<92912, 92916>>, <<92976, 92982>>,
      <<92992, 92995>>, <<94031, 94031>>, <<94095, 94111>>, <<94176, 94177>>, <<94179, 94180>>,
      <<110576, 110579>>, <<110581, 110587>>, <<110589, 110590>>, <<113821, 113822>>, <<113824, 113827>>,
      <<118528, 118573>>, <<118576, 118598>>, <<119143, 119145>>, <<119155, 119170>>, <<119173, 119179>>,
      <<119210, 119213>>, <<119362, 119364>>, <<121344, 121398>>, <<121403, 121452>>, <<121461, 121461>>,
      <<121476, 121476>>, <<121499, 121503>>, <<121505, 121519>>, <<122880, 122886>>, <<122888, 122904>>,
      <<122907, 122913>>, <<122915, 122916>>, <<122918, 122922>>, <<123184, 123197>>, <<123566, 123566>>,
      <<123628, 123631>>, <<125136, 125142>>, <<125252, 125259>>, <<127995, 127999>>, <<917505, 917505>>,
      <<917536, 917631>>, <<917760, 917999>> }

InRanges(c, ranges) == \E r \in ranges : r[1] <= c /\ c <= r[2]

\* The lower-case form of one character whose form is one character.
LowerChar(c) ==
    IF \E r \in LowerRanges :
          r[1] <= c /\ c <= r[2] /\ (c - r[1]) % r[3] = 0
    THEN c + (CHOOSE r \in LowerRanges :
                 r[1] <= c /\ c <= r[2] /\ (c - r[1]) % r[3] = 0)[4]
    ELSE c

\* The capital sigma s[i] ends a word: the nearest character before it that
\* is not case-ignorable is cased, and the nearest such character after it,
\* if any, is not.
FinalSigma(s, i) ==
    /\ \E j \in 1..(i - 1) :
          /\ InRanges(s[j], CasedRanges)
          /\ \A k \in (j + 1)..(i - 1) : InRanges(s[k], CaseIgnorableRanges)
    /\ ~ \E j \in (i + 1)..Len(s) :
          /\ InRanges(s[j], CasedRanges)
          /\ \A k \in (i + 1)..(j - 1) : InRanges(s[k], CaseIgnorableRanges)

\* The lower-case form of s[i]: capital sigma depends on its place, the
\* dotted capital I lowers to two characters.
LowerAt(s, i) ==
    IF s[i] = 931 THEN << IF FinalSigma(s, i) THEN 962 ELSE 963 >>
    ELSE IF s[i] = 304 THEN <<105, 775>>
    ELSE << LowerChar(s[i]) >>

RECURSIVE LowerFrom(_, _)
LowerFrom(s, i) ==
    IF i > Len(s) THEN <<>> ELSE LowerAt(s, i) \o LowerFrom(s, i + 1)

\* text_str.lower()
Lower(s) == LowerFrom(s, 1)

\* needle in hay
Contains(hay, needle) ==
    \E i \in 1..(Len(hay) - Len(needle) + 1) :
        SubSeq(hay, i, i + Len(needle) - 1) = needle

StartsWith(s, p) == Len(p) <= Len(s) /\ SubSeq(s, 1, Len(p)) = p
EndsWith(s, p) ==
    Len(p) <= Len(s) /\ SubSeq(s, Len(s) - Len(p) + 1, Len(s)) = p

\* len(s.split()): the number of maximal runs of non-blank characters.
SplitCount(s) ==
    Cardinality({ i \in 1..Len(s) :
        /\ s[i] \notin Whitespace
        /\ (i = 1 \/ s[i - 1] \in Whitespace) })

\* re.search(r'[ऀ-ॿ]', s)
HasDevanagari(s) == \E i \in 1..Len(s) : s[i] \in 2304..2431

hinglish_words ==
    << <<104,97,105>>, <<104,97,105,110>>, <<116,104,97>>,      \* hai hain tha
       <<116,104,105>>, <<107,97,114>>, <<107,121,97>>,         \* thi kar kya
       <<121,101,104>>, <<119,111,104>>, <<109,97,115,116>>,    \* yeh woh mast
       <<101,107,100,117,109>>, <<98,111,104,111,116>>,         \* ekdum bohot
       <<98,97,104,117,116>>,                                   \* bahut
       <<97,99,104,104,97>>, <<97,99,99,104,97>>,               \* achha accha
       <<116,104,101,101,107>>,                                 \* theek
       <<116,104,105,107>>, <<107,97,114,111>>,                 \* thik karo
       <<107,97,114,110,97>>,                                   \* karna
       <<107,105,116,110,97>>, <<107,105,116,110,101>>,         \* kitna kitne
       <<97,117,114>>,                                          \* aur
       <<107,97>>, <<107,105>>, <<107,101>>,                    \* ka ki ke
       <<110,97,104,105>>, <<110,97,104,105,110>>,              \* nahi nahin
       <<98,105,108,107,117,108>>,                              \* bilkul
       <<115,97,104,105>>, <<103,97,108,97,116>>,               \* sahi galat
       <<107,117,99,104>>,                                      \* kuch
       <<107,97,98>>, <<107,97,104,97,110>>, <<107,97,117,110>>,\* kab kahan kaun
       <<107,121,117,110>>, <<107,97,105,115,101>>,             \* kyun kaise
       <<97,98,104,105>>,                                       \* abhi
       <<97,98>>, <<112,104,105,114>>, <<100,101,107,104,111>>, \* ab phir dekho
       <<100,101,107,104>>, <<115,117,110,110,97>>,             \* dekh sunna
       <<115,117,110,111>>,                                     \* suno
       <<98,111,108,97>>, <<98,111,108,105>>, <<103,97,121,97>>,\* bola boli gaya
       <<103,97,121,105>>, <<108,101,110,97>>, <<108,105,121,97>>, \* gayi lena liya
       <<100,101,110,97>>, <<100,105,121,97>>,                  \* dena diya
       <<107,97,112,100,101>>,                                  \* kapde
       <<99,111,109,102,121>> >>                                \* comfy

\* The condition of the generator expression that counts Hinglish words.
WordHit(text_lower, word) ==
    \/ Contains(<<32>> \o text_lower \o <<32>>, <<32>> \o word \o <<32>>)
    \/ StartsWith(text_lower, word \o <<32>>)
    \/ EndsWith(text_lower, <<32>> \o word)

hinglish_count(text_lower) ==
    Cardinality({ k \in 1..Len(hinglish_words) :
                    WordHit(text_lower, hinglish_words[k]) })

\* clean_text of detect_language
clean_text(t) == Strip(ReSubEmoji(Strip(t)))

\* has_english = len(english_words) > 0
has_english(text_lower) == SplitCount(text_lower) > 0

\* The classification logic at the end of detect_language.
Classify(has_hindi_script, hasEnglish, count, ntokens) ==
    IF has_hindi_script /\ hasEnglish THEN "hinglish"
    ELSE IF has_hindi_script THEN "hi"
    ELSE IF count >= 2 THEN "hinglish"
    ELSE IF count = 1 /\ ntokens <= 5 THEN "hinglish"
    ELSE "en"

detect_language(t) ==
    IF Len(clean_text(t)) < 3 THEN "en"
    ELSE Classify(HasDevanagari(Strip(t)),
                  has_english(Lower(clean_text(t))),
                  hinglish_count(Lower(clean_text(t))),
                  SplitCount(Lower(clean_text(t))))


(***************************************************************************)
(* Label normalisation and the per-platform aggregation.                   *)
(***************************************************************************)
\* label_map.get(r['label'], r['label'])
label_map(l) ==
    CASE l = "LABEL_0"  -> "negative"
      [] l = "LABEL_1"  -> "neutral"
      [] l = "LABEL_2"  -> "positive"
      [] l = "negative" -> "negative"
      [] l = "neutral"  -> "neutral"
      [] l = "positive" -> "positive"
      [] OTHER          -> l

\* round(): the integer nearest to num/den, a tie going to the even one
\* (num >= 0, den > 0).
RoundHalfEven(num, den) ==
    LET q == num \div den
        r == num % den
    IN  IF 2 * r < den THEN q
        ELSE IF 2 * r > den THEN q + 1
        ELSE IF q % 2 = 0 THEN q ELSE q + 1

\* A score is the double nearest to score / 10^6.  DoubleSign tells whether
\* that double lies below (-1), on (0) or above (1) the decimal: it develops
\* the binary digits of the fraction r / 10^6 by doubling the remainder, sig
\* counting the significant digits so far and last being the latest one; the
\* digit after the 53rd decides how the double was rounded.
RECURSIVE DoubleSign(_, _, _)
DoubleSign(r, sig, last) ==
    LET unit == 1000000
        bit  == IF 2 * r >= unit THEN 1 ELSE 0
        rem  == 2 * r - bit * unit
    IN  IF r = 0 THEN 0
        ELSE IF sig < 53
             THEN DoubleSign(rem,
                             IF sig > 0 \/ bit = 1 THEN sig + 1 ELSE 0, bit)
             ELSE IF bit = 0 THEN -1
             ELSE IF rem > 0 \/ last = 1 THEN 1
             ELSE -1

\* round(r['score'], 4): a score in millionths, rounded to ten-thousandths.
\* round() rounds the double correctly: a score that reads as a decimal tie
\* goes to the side its double lies on, and to the even neighbour only when
\* the double is the tie exactly.
RoundScore(score) ==
    LET q    == score \div 100
        r    == score % 100
        sign == DoubleSign(score % 1000000, 0, 0)
    IN  IF r < 50 THEN q
        ELSE IF r > 50 THEN q + 1
        ELSE IF sign > 0 THEN q + 1
        ELSE IF sign < 0 THEN q
        ELSE RoundHalfEven(score, 100)

\* One element of the two list comprehensions over results.
Normalize(r) == [label |-> label_map(r.label), score |-> RoundScore(r.score)]

\* group['label'].value_counts(): the number of rows of the group labelled l.
CountLabel(labels, l) == Cardinality({ i \in 1..Len(labels) : labels[i] = l })

(***************************************************************************)
(* The arithmetic of the aggregation is done in doubles.  A double is held *)
(* as [sig, exp]: sig is its significand as a sequence of limbs of         *)
(* LimbBits bits, least significant limb first, and its value is the       *)
(* number sig spells times 2^exp.  Zero has no limbs.                      *)
(***************************************************************************)
SigBits  == 53
LimbBits == 15
Limb     == 2 ^ LimbBits

\* The natural number a short sequence of limbs spells.
RECURSIVE LimbsValue(_)
LimbsValue(a) == IF a = <<>> THEN 0 ELSE a[1] + Limb * LimbsValue(Tail(a))

\* a without its leading (most significant) zero limbs.
StripHigh(a) ==
    LET used == { i \in 1..Len(a) : a[i] # 0 }
    IN  IF used = {} THEN <<>>
        ELSE SubSeq(a, 1, CHOOSE i \in used : \A j \in used : j <= i)

\* The number of bits of a, which has no leading zero limb.
BitLen(a) ==
    IF a = <<>> THEN 0
    ELSE LimbBits * (Len(a) - 1)
            + (CHOOSE k \in 1..LimbBits :
                  2 ^ (k - 1) <= a[Len(a)] /\ a[Len(a)] < 2 ^ k)

\* a * k + carry, for k <= Limb.
RECURSIVE MulLimbs(_, _, _)
MulLimbs(a, k, carry) ==
    IF a = <<>>
    THEN IF carry = 0 THEN <<>> ELSE <<carry>>
    ELSE <<(a[1] * k + carry) % Limb>>
            \o MulLimbs(Tail(a), k, (a[1] * k + carry) \div Limb)

\* a + b + carry
RECURSIVE AddLimbs(_, _, _)
AddLimbs(a, b, carry) ==
    IF a = <<>> /\ b = <<>>
    THEN IF carry = 0 THEN <<>> ELSE <<carry>>
    ELSE LET x == IF a = <<>> THEN 0 ELSE a[1]
             y == IF b = <<>> THEN 0 ELSE b[1]
         IN  <<(x + y + carry) % Limb>>
                \o AddLimbs(IF a = <<>> THEN a ELSE Tail(a),
                            IF b = <<>> THEN b ELSE Tail(b),
                            (x + y + carry) \div Limb)

\* a * 2^n
ShiftLeft(a, n) ==
    [i \in 1..(n \div LimbBits) |-> 0] \o MulLimbs(a, 2 ^ (n % LimbBits), 0)

\* Bit i of a, the least significant being bit 1.
BitAt(a, i) ==
    LET k == (i - 1) \div LimbBits + 1
    IN  IF i < 1 \/ k > Len(a) THEN 0
        ELSE (a[k] \div 2 ^ ((i - 1) % LimbBits)) % 2

\* a without its d lowest bits: what is kept, the highest bit dropped and
\* whether any bit below that one was set.
ShiftRight(a, d) ==
    LET q == d \div LimbBits
        s == d % LimbBits
        limb(i) == IF i <= Len(a) THEN a[i] ELSE 0
    IN  [ kept   |-> StripHigh([ i \in 1..(Len(a) - q) |->
                        limb(i + q) \div 2 ^ s
                          + (limb(i + q + 1) % 2 ^ s) * 2 ^ (LimbBits - s) ]),
          round  |-> BitAt(a, d),
          sticky |-> \E i \in 1..(d - 1) : BitAt(a, i) = 1 ]

\* The result of an operation, rounded to the nearest double, a tie to the
\* even significand.
RoundToDouble(x) ==
    LET a == StripHigh(x.sig)
        d == BitLen(a) - SigBits
        r == ShiftRight(a, d)
        up == r.round = 1 /\ (r.sticky \/ r.kept[1] % 2 = 1)
    IN  IF d <= 0 THEN [sig |-> a, exp |-> x.exp]
        ELSE [ sig |-> IF up THEN AddLimbs(r.kept, <<1>>, 0) ELSE r.kept,
               exp |-> x.exp + d ]

\* The first n limbs of the fraction r / N, the most significant first, and
\* the remainder left after them.
RECURSIVE DivLimbs(_, _, _)
DivLimbs(r, N, n) ==
    IF n = 0 THEN [digits |-> <<>>, rem |-> r]
    ELSE LET next == DivLimbs((r * Limb) % N, N, n - 1)
         IN  [digits |-> <<(r * Limb) \div N>> \o next.digits, rem |-> next.rem]

\* The limbs of the quotient developed by FloatDiv: more bits than a double
\* holds, whatever zeros the fraction begins with.
DivDigits == 6

\* count / N of value_counts(normalize=True), for count <= N < Limb: the
\* quotient is developed to DivDigits limbs, its lowest bit set when a
\* remainder is left, and rounded.
FloatDiv(count, N) ==
    LET q   == DivLimbs(count, N, DivDigits)
        low == [i \in 1..DivDigits |-> q.digits[DivDigits + 1 - i]]
    IN  IF count = N THEN [sig |-> <<1>>, exp |-> 0]
        ELSE RoundToDouble(
                [ sig |-> IF q.rem > 0 /\ low[1] % 2 = 0
                          THEN [low EXCEPT ![1] = @ + 1] ELSE low,
                  exp |-> -(DivDigits * LimbBits) ])

\* x * k
FloatMul(x, k) == RoundToDouble([sig |-> MulLimbs(x.sig, k, 0), exp |-> x.exp])

\* x * 0.5
FloatHalf(x) == [sig |-> x.sig, exp |-> x.exp - 1]

\* x + y
FloatAdd(x, y) ==
    LET e == IF x.exp < y.exp THEN x.exp ELSE y.exp
    IN  RoundToDouble([ sig |-> AddLimbs(ShiftLeft(x.sig, x.exp - e),
                                         ShiftLeft(y.sig, y.exp - e), 0),
                        exp |-> e ])

\* rint(y): the integer nearest to the double y, the even one when y lies
\* midway.  The doubles of the aggregation have no positive exponent.
Rint(y) ==
    LET r     == ShiftRight(y.sig, -y.exp)
        whole == LimbsValue(r.kept)
    IN  IF r.round = 1 /\ (r.sticky \/ whole % 2 = 1) THEN whole + 1
        ELSE whole

\* round(x, d) of a numpy.float64 x, with scale = 10^d, as the integer
\* round(x, d) * scale.  counts is a float64 Series, so pos, neu, neg and
\* health_score are numpy.float64 and round computes rint(x * scale) / scale:
\* the product x * scale is itself rounded to a double before rint sees it,
\* and the division yields the double that prints as rint(...) / scale.
RoundFloat(x, scale) == Rint(FloatMul(x, scale))

\* round(x, d) cut, not rounded.
TruncFloat(x, scale) ==
    LET y == FloatMul(x, scale) IN LimbsValue(ShiftRight(y.sig, -y.exp).kept)

\* counts.get(l, 0) with counts = value_counts(normalize=True) * 100
Percentage(labels, l) ==
    FloatMul(FloatDiv(CountLabel(labels, l), Len(labels)), 100)

\* RoundedShare with the percentage cut to its first decimal, not rounded.
RoundedShareTruncated(labels, l) == TruncFloat(Percentage(labels, l), 10)

\* round(counts.get(l, 0), 1), in tenths.
RoundedShare(labels, l) == RoundFloat(Percentage(labels, l), 10)

\* HealthScore with a neutral comment weighing as much as a positive one.
HealthScoreFullNeutral(labels) ==
    RoundFloat(FloatAdd(Percentage(labels, "positive"),
                        Percentage(labels, "neutral")), 100)

\* health_score = pos + (neu * 0.5); round(health_score, 2), in hundredths.
HealthScore(labels) ==
    RoundFloat(FloatAdd(Percentage(labels, "positive"),
                        FloatHalf(Percentage(labels, "neutral"))), 100)

\* The dict appended to summary_data for one group.
PlatformSummary(platform, labels) ==
    [ platform       |-> platform,
      health_score   |-> HealthScore(labels),
      distribution   |-> [ positive |-> RoundedShare(labels, "positive"),
                           neutral  |-> RoundedShare(labels, "neutral"),
                           negative |-> RoundedShare(labels, "negative") ],
      total_comments |-> Len(labels) ]

\* The keys df.groupby('platform') can yield, in its (sorted) order.
GroupKeys == <<"Facebook", "General", "Instagram", "Linkedin", "Twitter">>

\* group['label'] of the group of one platform: its labels in frame order.
LabelsOf(rows, platform) ==
    LET InGroup(r) == r.platform = platform
        group      == SelectSeq(rows, InGroup)
    IN  [ i \in 1..Len(group) |-> group[i].label ]

\* Summarize without the grouping: one summary per row of the frame.
SummarizePerRow(rows) ==
    [ i \in 1..Len(rows) |->
        PlatformSummary(rows[i].platform, <<rows[i].label>>) ]

\* The loop over df.groupby('platform'): one summary per platform present.
RECURSIVE SummarizeFrom(_, _)
SummarizeFrom(rows, k) ==
    IF k > Len(GroupKeys) THEN <<>>
    ELSE (IF LabelsOf(rows, GroupKeys[k]) # <<>>
          THEN <<PlatformSummary(GroupKeys[k], LabelsOf(rows, GroupKeys[k]))>>
          ELSE <<>>)
         \o SummarizeFrom(rows, k + 1)

Summarize(rows) == SummarizeFrom(rows, 1)

(***************************************************************************)
(* Platform attribution.                                                   *)
(***************************************************************************)
platforms == <<"instagram", "twitter", "facebook", "linkedin">>
PlatformNames == { platforms[n] : n \in 1..Len(platforms) }

\* p.capitalize() for the four platform names.
Capitalize(p) ==
    CASE p = "instagram" -> "Instagram"
      [] p = "twitter"   -> "Twitter"
      [] p = "facebook"  -> "Facebook"
      [] p = "linkedin"  -> "Linkedin"

\* Files: a file that does not exist, and a file holding rows.
AbsentFile == [exists |-> FALSE, rows |-> <<>>]
FileOf(rows) == [exists |-> TRUE, rows |-> rows]

\* A platform's post listing: its post_id column, as the set of its values.
AbsentListing == [exists |-> FALSE, post_id |-> {}]
ListingOf(ids) == [exists |-> TRUE, post_id |-> ids]

\* RegistryAfter with a post id keeping the first platform that lists it.
RECURSIVE RegistryFirstWins(_, _)
RegistryFirstWins(files, n) ==
    IF n = 0 THEN <<>>
    ELSE LET prev == RegistryFirstWins(files, n - 1)
             p    == platforms[n]
         IN  IF files[p].exists
             THEN [ pid \in (DOMAIN prev) \cup files[p].post_id |->
                        IF pid \in DOMAIN prev THEN prev[pid]
                        ELSE Capitalize(p) ]
             ELSE prev

\* post_to_platform after the loop has handled the first n platforms.
RECURSIVE RegistryAfter(_, _)
RegistryAfter(files, n) ==
    IF n = 0 THEN <<>>
    ELSE LET prev == RegistryAfter(files, n - 1)
             p    == platforms[n]
         IN  IF files[p].exists
             THEN [ pid \in (DOMAIN prev) \cup files[p].post_id |->
                        IF pid \in files[p].post_id THEN Capitalize(p)
                        ELSE prev[pid] ]
             ELSE prev

BuildRegistry(files) == RegistryAfter(files, Len(platforms))

\* df['post_id'].map(post_to_platform).fillna('General') for one row.
PlatformOf(registry, pid) ==
    IF pid \in DOMAIN registry THEN registry[pid] ELSE "General"

(***************************************************************************)
(* update_history: the history log and the duplicate check.                *)
(***************************************************************************)
Procs == {1, 2}
Main  == 1

\* datetime.now().strftime("%Y-%m-%d %H:%M"): the clock cut to its minute.
Timestamp(now) == now \div TicksPerMinute

\* The header line to_csv writes; its cells are column names, which no
\* formatted time and no score equals.
HeaderLine ==
    [timestamp |-> -1, platform |-> "platform", health_score |-> -1]

\* ExistingTimestamps with the first row of the log lost with the header.
ExistingTimestampsSkipFirst(file) ==
    { file.rows[i].timestamp : i \in 3..Len(file.rows) }

\* existing_df['timestamp'].values: read_csv takes the first line as the
\* header and every other line as a row.
ExistingTimestamps(file) ==
    { file.rows[i].timestamp : i \in 2..Len(file.rows) }

\* TimestampExists looking at the last line of the log only.
TimestampExistsLastRow(ts, file) ==
    Len(file.rows) >= 2 /\ file.rows[Len(file.rows)].timestamp = ts

\* timestamp in existing_df['timestamp'].values
TimestampExists(ts, file) == ts \in ExistingTimestamps(file)

\* history_rows
HistoryRows(ts, summary) ==
    [ i \in 1..Len(summary) |->
        [ timestamp    |-> ts,
          platform     |-> summary[i].platform,
          health_score |-> summary[i].health_score ] ]

\* history_df.to_csv(OUTPUT_FILE_HISTORY, mode='a', header=not file_exists)
AppendCsv(file, rows, header) ==
    FileOf(file.rows \o (IF header THEN <<HeaderLine>> ELSE <<>>) \o rows)

Active == {"isfile", "now", "check", "write"}

\* The call itself: the activation of process p starts.
Enter(p, summary) ==
    /\ uh_pc' = [uh_pc EXCEPT ![p] = "isfile"]
    /\ uh_arg' = [uh_arg EXCEPT ![p] = summary]
    /\ uh_entry' = [uh_entry EXCEPT ![p] = history_file]
    /\ overlapped' = (overlapped \/ \E q \in Procs \ {p} : uh_pc[q] \in Active)
    /\ UNCHANGED <<file_exists, timestamp>>

UH_IsFile(p) ==
    /\ uh_pc[p] = "isfile"
    /\ file_exists' = [file_exists EXCEPT ![p] = history_file.exists]
    /\ uh_pc' = [uh_pc EXCEPT ![p] = "now"]
    /\ UNCHANGED <<uh_arg, timestamp, uh_entry, overlapped>>
    /\ UNCHANGED <<inVars, outVars, history_file, runVars>>

\* timestamp = datetime.now()...: local wall time, which may return any
\* instant, also one earlier than the call before got.
UH_Now(p) ==
    /\ uh_pc[p] = "now"
    /\ \E now \in 0..MaxClock :
          timestamp' = [timestamp EXCEPT ![p] = Timestamp(now)]
    /\ uh_pc' = [uh_pc EXCEPT ![p] = "check"]
    /\ UNCHANGED <<uh_arg, file_exists, uh_entry, overlapped>>
    /\ UNCHANGED <<inVars, outVars, history_file, runVars>>

UH_Check(p) ==
    /\ uh_pc[p] = "check"
    /\ uh_pc' = [uh_pc EXCEPT ![p] =
                    IF file_exists[p] /\ TimestampExists(timestamp[p], history_file)
                    THEN "returned"
                    ELSE "write"]
    /\ UNCHANGED <<uh_arg, file_exists, timestamp, uh_entry, overlapped>>
    /\ UNCHANGED <<inVars, outVars, history_file, runVars>>

UH_Write(p) ==
    /\ uh_pc[p] = "write"
    /\ history_file' =
          IF HistoryRows(timestamp[p], uh_arg[p]) # <<>>
          THEN AppendCsv(history_file, HistoryRows(timestamp[p], uh_arg[p]),
                         ~file_exists[p])
          ELSE history_file
    /\ uh_pc' = [uh_pc EXCEPT ![p] = "returned"]
    /\ UNCHANGED <<uh_arg, file_exists, timestamp, uh_entry, overlapped>>
    /\ UNCHANGED <<inVars, outVars, runVars>>

(***************************************************************************)
(* run_full_pipeline.                                                      *)
(***************************************************************************)
Unset == "unset"

\* df.empty never noticed.
df_empty_never(rows) == FALSE

\* df.empty
df_empty(rows) == Len(rows) = 0

\* df = pd.read_csv(comments_path): the later columns are not yet set.
LoadRows(rows) ==
    [ i \in 1..Len(rows) |->
        [ post_id |-> rows[i].post_id, comment_text |-> rows[i].comment_text,
          label |-> Unset, score |-> -1, platform |-> Unset,
          language |-> Unset ] ]

\* results = sentiment_pipe(texts); df['label'] = ...; df['score'] = ...
ClassifyRows(rows, pipe) ==
    [ i \in 1..Len(rows) |->
        [ rows[i] EXCEPT
            !.label = Normalize(pipe[rows[i].comment_text]).label,
            !.score = Normalize(pipe[rows[i].comment_text]).score ] ]

\* df['platform'] = df['post_id'].map(post_to_platform).fillna('General')
MapRows(rows, registry) ==
    [ i \in 1..Len(rows) |->
        [ rows[i] EXCEPT !.platform = PlatformOf(registry, rows[i].post_id) ] ]

\* df['language'] = df['comment_text'].apply(detect_language)
LanguageRows(rows) ==
    [ i \in 1..Len(rows) |->
        [ rows[i] EXCEPT !.language = detect_language(rows[i].comment_text) ] ]

\* The order of the statements of run_full_pipeline.
ProgramOrder ==
    << "load", "classify", "map", "language", "write_detailed", "aggregate",
       "write_summary", "history", "done" >>

\* StepAfter with the aggregation moved before the detailed table is saved.
StepAfterAggregateFirst(s) ==
    LET order == << "load", "classify", "map", "language", "aggregate",
                    "write_detailed", "write_summary", "history", "done" >>
    IN  order[1 + CHOOSE k \in 1..(Len(order) - 1) : order[k] = s]

StepAfter(s) ==
    ProgramOrder[1 + CHOOSE k \in 1..(Len(ProgramOrder) - 1) :
                        ProgramOrder[k] = s]

Advance(s) ==
    /\ pc = s
    /\ pc' = StepAfter(s)
    /\ steps' = Append(steps, s)

NoOutputs ==
    [ detailed_file |-> AbsentFile, summary_file |-> AbsentFile,
      history_file |-> AbsentFile ]

Snapshot ==
    [ detailed_file |-> detailed_file, summary_file |-> summary_file,
      history_file |-> history_file ]

Start ==
    /\ pc = "idle"
    /\ pc' = "load"
    /\ run_start' = Snapshot
    /\ UNCHANGED <<steps, df, post_to_platform, summary_data, seen>>
    /\ UNCHANGED <<inVars, outVars, history_file, uhVars>>

Load ==
    /\ pc = "load"
    /\ IF ~comments_file.exists \/ df_empty(comments_file.rows)
       THEN /\ pc' = "aborted"
            /\ UNCHANGED <<steps, df>>
       ELSE /\ Advance("load")
            /\ df' = LoadRows(comments_file.rows)
    /\ seen' = comments_file
    /\ UNCHANGED <<post_to_platform, summary_data, run_start>>
    /\ UNCHANGED <<inVars, outVars, history_file, uhVars>>

ClassifySentiment ==
    /\ Advance("classify")
    /\ df' = ClassifyRows(df, sentiment_pipe)
    /\ UNCHANGED <<post_to_platform, summary_data, run_start, seen>>
    /\ UNCHANGED <<inVars, outVars, history_file, uhVars>>

MapPlatforms ==
    /\ Advance("map")
    /\ post_to_platform' = BuildRegistry(posts_files)
    /\ df' = MapRows(df, BuildRegistry(posts_files))
    /\ UNCHANGED <<summary_data, run_start, seen>>
    /\ UNCHANGED <<inVars, outVars, history_file, uhVars>>

DetectLanguages ==
    /\ Advance("language")
    /\ df' = LanguageRows(df)
    /\ UNCHANGED <<post_to_platform, summary_data, run_start, seen>>
    /\ UNCHANGED <<inVars, outVars, history_file, uhVars>>

WriteDetailed ==
    /\ Advance("write_detailed")
    /\ detailed_file' = FileOf(df)
    /\ UNCHANGED <<df, post_to_platform, summary_data, run_start, seen>>
    /\ UNCHANGED <<inVars, summary_file, history_file, uhVars>>

Aggregate ==
    /\ Advance("aggregate")
    /\ summary_data' = Summarize(df)
    /\ UNCHANGED <<df, post_to_platform, run_start, seen>>
    /\ UNCHANGED <<inVars, outVars, history_file, uhVars>>

WriteSummary ==
    /\ Advance("write_summary")
    /\ summary_file' = FileOf(summary_data)
    /\ UNCHANGED <<df, post_to_platform, summary_data, run_start, seen>>
    /\ UNCHANGED <<inVars, detailed_file, history_file, uhVars>>

CallUpdateHistory ==
    /\ pc = "history"
    /\ uh_pc[Main] = "idle"
    /\ Enter(Main, summary_data)
    /\ UNCHANGED <<inVars, outVars, history_file, runVars>>

Finish ==
    /\ uh_pc[Main] = "returned"
    /\ Advance("history")
    /\ uh_pc' = [uh_pc EXCEPT ![Main] = "idle"]
    /\ UNCHANGED <<df, post_to_platform, summary_data, run_start, seen>>
    /\ UNCHANGED <<uh_arg, file_exists, timestamp, uh_entry, overlapped>>
    /\ UNCHANGED <<inVars, outVars, history_file>>

\* The function returns, after the abort or after its last statement, and
\* its locals are gone.
Return ==
    /\ pc \in {"aborted", "done"}
    /\ pc' = "idle"
    /\ steps' = <<>>
    /\ df' = <<>>
    /\ post_to_platform' = <<>>
    /\ summary_data' = <<>>
    /\ run_start' = NoOutputs
    /\ seen' = AbsentFile
    /\ UNCHANGED <<inVars, outVars, history_file, uhVars>>

\* The comment table may be removed or emptied from outside at any time.
RemoveComments ==
    /\ comments_file.exists
    /\ comments_file' = AbsentFile
    /\ UNCHANGED <<posts_files, sentiment_pipe, stream_df>>
    /\ UNCHANGED <<outVars, history_file, runVars, uhVars>>

EmptyComments ==
    /\ comments_file.exists
    /\ comments_file.rows # <<>>
    /\ comments_file' = FileOf(<<>>)
    /\ UNCHANGED <<posts_files, sentiment_pipe, stream_df>>
    /\ UNCHANGED <<outVars, history_file, runVars, uhVars>>

(***************************************************************************)
(* mock_streamer.py: update_csv on the comment table.  The streamer is a   *)
(* process of its own and is not synchronised with the pipeline.  Its      *)
(* update_csv calls on the post files rewrite them with the post_id column *)
(* as it was, so the listings stay as they are.                            *)
(***************************************************************************)
\* All sequences over S of length lo..hi.
SeqsOf(S, lo, hi) == UNION { [1..n -> S] : n \in lo..hi }

\* The rows comment_logic may append: one per line of generated text, each
\* with one of the post ids POST_0001..POST_0004.
StreamRows ==
    { [post_id |-> 1, comment_text |-> <<107, 97, 32, 120>>],
      [post_id |-> 3, comment_text |-> <<128525, 128525, 128525>>] }

\* if os.path.exists(path): df = pd.read_csv(path)
StreamRead ==
    /\ ~stream_df.exists
    /\ comments_file.exists
    /\ Len(comments_file.rows) < MaxComments
    /\ stream_df' = comments_file
    /\ UNCHANGED <<comments_file, posts_files, sentiment_pipe>>
    /\ UNCHANGED <<outVars, history_file, runVars, uhVars>>

\* df = logic_func(df); df.to_csv(path, index=False)
StreamWrite ==
    /\ stream_df.exists
    /\ \E new \in SeqsOf(StreamRows, 1, MaxComments - Len(stream_df.rows)) :
          comments_file' = FileOf(stream_df.rows \o new)
    /\ stream_df' = AbsentFile
    /\ UNCHANGED <<posts_files, sentiment_pipe>>
    /\ UNCHANGED <<outVars, history_file, runVars, uhVars>>

(***************************************************************************)
(* Initial values shared by the specifications.                            *)
(***************************************************************************)
NoListings == [p \in PlatformNames |-> AbsentListing]

OutInit ==
    /\ detailed_file = AbsentFile
    /\ summary_file = AbsentFile
    /\ history_file = AbsentFile

UhInit ==
    /\ uh_pc = [p \in Procs |-> "idle"]
    /\ uh_arg = [p \in Procs |-> <<>>]
    /\ file_exists = [p \in Procs |-> FALSE]
    /\ timestamp = [p \in Procs |-> 0]
    /\ uh_entry = [p \in Procs |-> AbsentFile]
    /\ overlapped = FALSE

\* A first run that has reached statement k of ProgramOrder with frame rows.
RunAt(k, rows) ==
    /\ pc = ProgramOrder[k]
    /\ steps = SubSeq(ProgramOrder, 1, k - 1)
    /\ df = rows
    /\ seen = FileOf([ i \in 1..Len(rows) |->
                         [ post_id |-> rows[i].post_id,
                           comment_text |-> rows[i].comment_text ] ])
    /\ summary_data = <<>>
    /\ run_start = NoOutputs

(***************************************************************************)
(* Spec: runs of the pipeline, one after the other, beside the streamer.   *)
(***************************************************************************)
SampleTexts == { <<107, 97, 32, 120>>,            \* "ka x"
                 <<128525, 128525, 128525>> }     \* three emoji

SampleComments ==
    { [post_id |-> 1, comment_text |-> <<107, 97, 32, 120>>],
      [post_id |-> 3, comment_text |-> <<128525, 128525, 128525>>] }

\* The classifier is a function of the text: two of the functions from the
\* sample texts to the sample results.
SamplePipes ==
    { [t \in SampleTexts |->
          IF Len(t) = 4 THEN [label |-> "positive", score |-> 987654]
                        ELSE [label |-> "LABEL_0",  score |-> 731200]],
      [t \in SampleTexts |-> [label |-> "LABEL_1", score |-> 500150]] }

SampleListings ==
    { [NoListings EXCEPT !["instagram"] = ListingOf({1, 2}),
                         !["twitter"]   = ListingOf({1}),
                         !["linkedin"]  = ListingOf({})],
      [NoListings EXCEPT !["facebook"]  = ListingOf({1})] }

Init ==
    /\ comments_file \in
          {AbsentFile} \cup
          { FileOf(r) : r \in SeqsOf(SampleComments, 0, MaxComments) }
    /\ posts_files \in SampleListings
    /\ sentiment_pipe \in SamplePipes
    /\ stream_df = AbsentFile
    /\ OutInit
    /\ pc = "idle"
    /\ steps = <<>>
    /\ df = <<>>
    /\ post_to_platform = <<>>
    /\ summary_data = <<>>
    /\ run_start = NoOutputs
    /\ seen = AbsentFile
    /\ UhInit

Next ==
    \/ Start
    \/ Load
    \/ ClassifySentiment
    \/ MapPlatforms
    \/ DetectLanguages
    \/ WriteDetailed
    \/ Aggregate
    \/ WriteSummary
    \/ CallUpdateHistory
    \/ UH_IsFile(Main)
    \/ UH_Now(Main)
    \/ UH_Check(Main)
    \/ UH_Write(Main)
    \/ Finish
    \/ Return
    \/ RemoveComments
    \/ EmptyComments
    \/ StreamRead
    \/ StreamWrite

Spec == Init /\ [][Next]_vars

(***************************************************************************)
(* SpecLang: the language step of a run over one comment, for every text   *)
(* built from up to MaxHead tokens followed by up to MaxFill filler words, *)
(* joined by single blanks.                                                *)
(***************************************************************************)
LangTokens ==
    { <<107, 97>>,             \* "ka"   (lexicon)
      <<97, 98>>,              \* "ab"   (lexicon)
      <<72, 97, 105>>,         \* "Hai"  (lexicon, upper-case initial)
      <<8490, 97>>,            \* "Ka" with U+212A KELVIN SIGN for the K
      <<120>>,                 \* "x"
      <<128525>>,              \* an emoji, U+1F60D
      <<2351, 2361>>,          \* two Devanagari letters
      <<49, 46>>,              \* "1."
      <<128512, 45, 128591>>,  \* U+1F600, "-", U+1F64F
      <<>> }                   \* nothing: two blanks in a row, or one at an end

RECURSIVE JoinWords(_)
JoinWords(ws) ==
    IF ws = <<>> THEN <<>>
    ELSE IF Len(ws) = 1 THEN ws[1]
    ELSE ws[1] \o <<32>> \o JoinWords(Tail(ws))

LangTexts ==
    { JoinWords(h \o [i \in 1..n |-> <<120>>]) :
        h \in SeqsOf(LangTokens, 0, MaxHead), n \in 0..MaxFill }

OneResult == [label |-> "LABEL_2", score |-> 987654]

InitLang ==
    /\ \E t \in LangTexts :
          /\ comments_file = FileOf(<<[post_id |-> 1, comment_text |-> t]>>)
          /\ sentiment_pipe = [x \in {t} |-> OneResult]
    /\ posts_files = NoListings
    /\ post_to_platform = BuildRegistry(posts_files)
    /\ RunAt(4, MapRows(ClassifyRows(LoadRows(comments_file.rows),
                                     sentiment_pipe),
                        post_to_platform))
    /\ stream_df = AbsentFile
    /\ OutInit
    /\ UhInit

NextLang == DetectLanguages

SpecLang == InitLang /\ [][NextLang]_vars

(***************************************************************************)
(* SpecAgg: the aggregation step of a run whose comments all belong to one *)
(* platform, for every mix of up to MaxGroup labels, for every mix of the  *)
(* known labels in a group of one of the sizes LargeGroups, and for the    *)
(* groups TieGroups.                                                       *)
(***************************************************************************)
AggSamples ==
    << [text |-> <<120, 49>>, result |-> [label |-> "LABEL_2",  score |-> 987654]],
       [text |-> <<120, 50>>, result |-> [label |-> "neutral",  score |-> 500049]],
       [text |-> <<120, 51>>, result |-> [label |-> "negative", score |-> 731200]],
       [text |-> <<120, 52>>, result |-> [label |-> "mixed",    score |-> 400000]] >>

AggPipe ==
    [ t \in { AggSamples[k].text : k \in 1..Len(AggSamples) } |->
        (CHOOSE k \in 1..Len(AggSamples) : AggSamples[k].text = t) ]

AggComments(k, n) ==
    [ i \in 1..n |-> [post_id |-> 1, comment_text |-> AggSamples[k].text] ]

\* Sizes of larger groups: those at which a percentage or a score first is a
\* decimal tie that its double misses (4 positive, 1 neutral, 43 negative of
\* 48; 23 positive of 80).  Their comments carry the three known labels.
LargeGroups == {48, 80}

\* Groups of 2000 comments, as <<positive, neutral, negative, passed through>>:
\* the smallest size at which a percentage or a score is a decimal tie that
\* no double holds (1 of 2000 is 0.05 percent), where rint of the product
\* decides the digit.
TieGroups ==
    { <<0, 1, 1999, 0>>, <<1, 0, 1999, 0>>, <<1, 1, 1998, 0>>,
      <<0, 3, 1997, 0>>, <<3, 3, 1994, 0>>, <<7, 0, 1993, 0>>,
      <<247, 0, 1753, 0>>, <<1000, 999, 1, 0>>, <<1999, 0, 0, 1>> }

InitAgg ==
    /\ \/ \E N \in (1..MaxGroup) \cup LargeGroups :
          \E c1 \in 0..N :
          \E c2 \in 0..(N - c1) :
          \E c3 \in 0..(N - c1 - c2) :
          \E c4 \in {N - c1 - c2 - c3} :
             /\ N > MaxGroup => c4 = 0
             /\ comments_file =
                   FileOf(AggComments(1, c1) \o AggComments(2, c2)
                            \o AggComments(3, c3) \o AggComments(4, c4))
       \/ \E c \in TieGroups :
             comments_file =
                FileOf(AggComments(1, c[1]) \o AggComments(2, c[2])
                         \o AggComments(3, c[3]) \o AggComments(4, c[4]))
    /\ sentiment_pipe = [t \in DOMAIN AggPipe |-> AggSamples[AggPipe[t]].result]
    /\ posts_files \in { NoListings,
                         [NoListings EXCEPT !["linkedin"] = ListingOf({1})] }
    /\ post_to_platform = BuildRegistry(posts_files)
    /\ \E loaded \in {LoadRows(comments_file.rows)} :
       \E classified \in {ClassifyRows(loaded, sentiment_pipe)} :
       \E mapped \in {MapRows(classified, post_to_platform)} :
          RunAt(6, LanguageRows(mapped))
    /\ stream_df = AbsentFile
    /\ detailed_file = FileOf(df)
    /\ summary_file = AbsentFile
    /\ history_file = AbsentFile
    /\ UhInit

NextAgg == Aggregate

SpecAgg == InitAgg /\ [][NextAgg]_vars

(***************************************************************************)
(* SpecAttr: the attribution step of a run, for every choice of the four   *)
(* listings over the post ids 1..NumPostIds.                               *)
(***************************************************************************)
AllListings ==
    {AbsentListing} \cup { ListingOf(S) : S \in SUBSET (1..NumPostIds) }

InitAttr ==
    /\ posts_files \in [PlatformNames -> AllListings]
    /\ \E ids \in SeqsOf(1..NumPostIds, 1, MaxAttrRows) :
          comments_file =
             FileOf([i \in 1..Len(ids) |->
                        [post_id |-> ids[i], comment_text |-> <<120, 49>>]])
    /\ sentiment_pipe = [t \in {<<120, 49>>} |-> OneResult]
    /\ post_to_platform = <<>>
    /\ RunAt(3, ClassifyRows(LoadRows(comments_file.rows), sentiment_pipe))
    /\ stream_df = AbsentFile
    /\ OutInit
    /\ UhInit

NextAttr == MapPlatforms

SpecAttr == InitAttr /\ [][NextAttr]_vars

(***************************************************************************)
(* SpecConc: two processes call update_history on the same history log,    *)
(* their statements interleaved.                                           *)
(***************************************************************************)
ConcFrames ==
    { << [platform |-> "General", label |-> "positive"] >>,
      << [platform |-> "Instagram", label |-> "neutral"],
         [platform |-> "General", label |-> "negative"],
         [platform |-> "Instagram", label |-> "positive"] >> }

ConcSummaries == { Summarize(rows) : rows \in ConcFrames }

Invoke(p) ==
    /\ uh_pc[p] \in {"idle", "returned"}
    /\ \E summary \in ConcSummaries : Enter(p, summary)
    /\ UNCHANGED <<inVars, outVars, history_file, runVars>>

InitConc ==
    /\ comments_file = AbsentFile
    /\ posts_files = NoListings
    /\ sentiment_pipe = <<>>
    /\ post_to_platform = <<>>
    /\ pc = "idle"
    /\ steps = <<>>
    /\ df = <<>>
    /\ summary_data = <<>>
    /\ run_start = NoOutputs
    /\ stream_df = AbsentFile
    /\ seen = AbsentFile
    /\ OutInit
    /\ UhInit

\* The classified rows a frame may hold, and the summary lists the
\* aggregation builds from the frames of up to MaxFrameRows of them.
HistRows ==
    { [platform |-> q, label |-> l] :
        q \in {"General", "Instagram"}, l \in {"positive", "negative"} }

HistSummaries == { Summarize(rows) : rows \in SeqsOf(HistRows, 1, MaxFrameRows) }

InvokeHist ==
    /\ uh_pc[Main] \in {"idle", "returned"}
    /\ \E summary \in HistSummaries : Enter(Main, summary)
    /\ UNCHANGED <<inVars, outVars, history_file, runVars>>

NextHist ==
    \/ InvokeHist
    \/ UH_IsFile(Main)
    \/ UH_Now(Main)
    \/ UH_Check(Main)
    \/ UH_Write(Main)

\* One process calls update_history again and again, each call after the
\* one before has returned.
SpecHist == InitConc /\ [][NextHist]_vars

NextConc ==
    \/ \E p \in Procs : Invoke(p)
    \/ \E p \in Procs : UH_IsFile(p)
    \/ \E p \in Procs : UH_Now(p)
    \/ \E p \in Procs : UH_Check(p)
    \/ \E p \in Procs : UH_Write(p)

SpecConc == InitConc /\ [][NextConc]_vars

(***************************************************************************)
(* Properties.                                                             *)
(***************************************************************************)
\* The lines of the history log that are records, not header lines.
DataLines(file) == { i \in 1..Len(file.rows) : file.rows[i] # HeaderLine }

\* Two records of the log carry the same platform and the same minute.
DuplicateRecord ==
    \E i, j \in DataLines(history_file) :
        /\ i # j
        /\ history_file.rows[i].platform = history_file.rows[j].platform
        /\ history_file.rows[i].timestamp = history_file.rows[j].timestamp

\* C1: after any sequence of calls of update_history that do not overlap,
\* at any minute and with any summary list the aggregation can build, the
\* history log holds at most one record for each (platform, minute) pair.
C1_OneRecordPerPlatformMinute == ~DuplicateRecord

\* A call has just been skipped on a log that holds two minutes, one of them
\* with the records of two platforms.
C1_Witness ==
    /\ uh_pc[Main] = "returned"
    /\ history_file = uh_entry[Main]
    /\ \E i, j, k \in DataLines(history_file) :
          /\ history_file.rows[i].timestamp # history_file.rows[j].timestamp
          /\ history_file.rows[i].timestamp = history_file.rows[k].timestamp
          /\ history_file.rows[i].platform # history_file.rows[k].platform
          /\ history_file.rows[i].timestamp = timestamp[Main]

\* The minute ts stands somewhere in the log, whatever the platform.
MinuteInLog(ts, file) ==
    \E i \in 1..Len(file.rows) : file.rows[i].timestamp = ts

RecordsOfMinute(ts, file) ==
    Cardinality({ i \in 1..Len(file.rows) : file.rows[i].timestamp = ts })

\* C2: a call of update_history whose minute already stands anywhere in the
\* log (for any platform) returns with the log exactly as it found it; a
\* call whose minute is new leaves one record per summary, so that two calls
\* in one minute leave one set of records, not two.
C2_SameMinuteCallIsNoOp ==
    \A p \in Procs :
        uh_pc[p] = "returned" =>
            IF MinuteInLog(timestamp[p], uh_entry[p])
            THEN history_file = uh_entry[p]
            ELSE RecordsOfMinute(timestamp[p], history_file) = Len(uh_arg[p])

\* A call was skipped although one of its platforms has no record at that
\* minute: the minute was written for another platform only.
C2_Witness ==
    /\ uh_pc[Main] = "returned"
    /\ MinuteInLog(timestamp[Main], uh_entry[Main])
    /\ history_file = uh_entry[Main]
    /\ \E k \in 1..Len(uh_arg[Main]) :
          \A i \in 1..Len(history_file.rows) :
              history_file.rows[i].timestamp = timestamp[Main]
                  => history_file.rows[i].platform # uh_arg[Main][k].platform

\* The run has finished its language step.
LanguageDone == \E k \in 1..Len(steps) : steps[k] = "language"

\* A token of Latin letters, bounded by blanks or the ends of the text.
HasLatinToken(s) ==
    \E i \in 1..Len(s) : \E j \in i..Len(s) :
        /\ i = 1 \/ s[i - 1] \in Whitespace
        /\ j = Len(s) \/ s[j + 1] \in Whitespace
        /\ \A k \in i..j : s[k] \in (65..90) \cup (97..122)

\* The decision order as the specification states it.
ClaimedLanguage(t) ==
    LET lower == Lower(clean_text(t))
    IN  IF HasDevanagari(t) /\ HasLatinToken(lower) THEN "hinglish"
        ELSE IF HasDevanagari(t) THEN "hi"
        ELSE IF hinglish_count(lower) >= 2 THEN "hinglish"
        ELSE IF hinglish_count(lower) = 1 /\ SplitCount(lower) <= 5
             THEN "hinglish"
        ELSE "en"

\* C3: for a text whose cleaned form has at least 3 characters the language
\* is the first match of: Devanagari with Latin-letter tokens -> hinglish;
\* Devanagari alone -> hi; two lexicon hits or more -> hinglish; one hit and
\* at most 5 tokens -> hinglish; otherwise en.
C3_DecisionOrder ==
    LanguageDone =>
        \A i \in 1..Len(df) :
            Len(clean_text(df[i].comment_text)) >= 3
                => df[i].language = ClaimedLanguage(df[i].comment_text)

\* The emoji and pictograph ranges the pattern names.
IsEmojiChar(c) ==
    \/ c \in 128512..128591
    \/ c \in 127744..128511
    \/ c \in 128640..128767
    \/ c \in 127456..127487
    \/ c \in 9986..10160
    \/ c \in 9410..127569
    \/ c \in 129280..129535
    \/ c \in 129536..129647

\* The text without its numeric list markers and without any emoji.
RECURSIVE StripEmojiFrom(_, _)
StripEmojiFrom(s, i) ==
    IF i > Len(s) THEN <<>>
    ELSE IF IsDigit(s[i]) /\ DigitRunEnd(s, i) < Len(s)
            /\ s[DigitRunEnd(s, i) + 1] = 46
         THEN StripEmojiFrom(s, DigitRunEnd(s, i) + 2)
    ELSE IF IsEmojiChar(s[i]) THEN StripEmojiFrom(s, i + 1)
    ELSE <<s[i]>> \o StripEmojiFrom(s, i + 1)

ClaimedClean(t) == Strip(StripEmojiFrom(Strip(t), 1))

\* C4: every emoji and every numeric list marker is stripped and the text
\* trimmed before any other test, and a text that is then shorter than 3
\* characters is en, whatever else it contains.
C4_ShortCleanedTextIsEn ==
    LanguageDone =>
        \A i \in 1..Len(df) :
            Len(ClaimedClean(df[i].comment_text)) < 3 => df[i].language = "en"

\* The run has finished its aggregation step.
AggregateDone == \E k \in 1..Len(steps) : steps[k] = "aggregate"

DistributionSum(s) ==
    s.distribution.positive + s.distribution.neutral + s.distribution.negative

KnownLabels == {"positive", "neutral", "negative"}

AllKnown(labels) == \A i \in 1..Len(labels) : labels[i] \in KnownLabels

\* C5 as stated: for every platform group, whatever its labels, the three
\* rounded percentages sum to a value in [99.9, 100.1].
C5_SumForEveryGroup ==
    AggregateDone =>
        \A k \in 1..Len(summary_data) :
            DistributionSum(summary_data[k]) \in 999..1001

\* No label of the group is one of the three the aggregation counts.
NoneKnown(labels) == \A i \in 1..Len(labels) : labels[i] \notin KnownLabels

\* C5 as amended: for every platform group whose labels all lie in
\* {positive, neutral, negative}, the three rounded percentages sum to a
\* value in [99.9, 100.1]; for a group none of whose labels does, they sum
\* to 0; for any other group the sum is at most 100.1.
C5_SumForKnownLabels ==
    AggregateDone =>
        \A k \in 1..Len(summary_data) :
            LET labels == LabelsOf(df, summary_data[k].platform)
            IN  /\ AllKnown(labels)
                      => DistributionSum(summary_data[k]) \in 999..1001
                /\ NoneKnown(labels) => DistributionSum(summary_data[k]) = 0
                /\ DistributionSum(summary_data[k]) \in 0..1001

\* A group of known labels whose rounded percentages sum to 100.1.
C5_Witness ==
    /\ AggregateDone
    /\ \E k \in 1..Len(summary_data) :
          /\ AllKnown(LabelsOf(df, summary_data[k].platform))
          /\ DistributionSum(summary_data[k]) = 1001

\* C6: every health score lies in [0, 100] and is pos + 0.5 * neu rounded to
\* 2 decimals (the hundredth nearest to (100 * positive + 50 * neutral) / N);
\* 6 positive, 3 neutral and 1 negative of 10 give 60.0, 30.0, 10.0 and 75.0.
C6_HealthScore ==
    AggregateDone =>
        \A k \in 1..Len(summary_data) :
            LET s      == summary_data[k]
                labels == LabelsOf(df, s.platform)
                N      == Len(labels)
                exact  == 100 * (100 * CountLabel(labels, "positive")
                                   + 50 * CountLabel(labels, "neutral"))
            IN  /\ N >= 1
                /\ s.total_comments = N
                /\ s.health_score \in 0..10000
                /\ 2 * (N * s.health_score - exact) <= N
                /\ 2 * (exact - N * s.health_score) <= N
                /\ ( /\ N = 10
                     /\ CountLabel(labels, "positive") = 6
                     /\ CountLabel(labels, "neutral") = 3
                     /\ CountLabel(labels, "negative") = 1 )
                   => /\ s.health_score = 7500
                      /\ s.distribution =
                            [positive |-> 600, neutral |-> 300, negative |-> 100]

\* The group of the scenario has been aggregated.
C6_Witness ==
    /\ AggregateDone
    /\ \E k \in 1..Len(summary_data) :
          LET labels == LabelsOf(df, summary_data[k].platform)
          IN  /\ Len(labels) = 10
              /\ CountLabel(labels, "positive") = 6
              /\ CountLabel(labels, "neutral") = 3
              /\ CountLabel(labels, "negative") = 1
              /\ summary_data[k].health_score = 7500

\* C7: a run that finds the comment table absent, or present with no row,
\* aborts, and the detailed table, the summary and the history log are as
\* they were when the run began.
C7_AbortLeavesOutputs ==
    /\ (pc \notin {"idle", "load"} /\ (~seen.exists \/ Len(seen.rows) = 0))
       => pc = "aborted"
    /\ pc = "aborted"
       => /\ ~seen.exists \/ Len(seen.rows) = 0
          /\ Snapshot = run_start

\* A run has aborted on a table with no row, after an earlier run had
\* written all three outputs.
C7_Witness ==
    /\ pc = "aborted"
    /\ seen.exists
    /\ detailed_file.exists
    /\ summary_file.exists
    /\ history_file.exists

\* The scan order and the names as the specification states them.
ScanOrderClaimed == <<"instagram", "twitter", "facebook", "linkedin">>

NameClaimed(p) ==
    CASE p = "instagram" -> "Instagram"
      [] p = "twitter"   -> "Twitter"
      [] p = "facebook"  -> "Facebook"
      [] p = "linkedin"  -> "Linkedin"

\* The positions in the scan order of the available listings that hold pid.
Listers(pid) ==
    { n \in 1..Len(ScanOrderClaimed) :
        /\ posts_files[ScanOrderClaimed[n]].exists
        /\ pid \in posts_files[ScanOrderClaimed[n]].post_id }

LastLister(pid) == CHOOSE n \in Listers(pid) : \A m \in Listers(pid) : m <= n

MapDone == \E k \in 1..Len(steps) : steps[k] = "map"

\* C8: a comment whose post_id is in no available listing is attributed to
\* "General"; otherwise to the capitalised name of the last platform, in
\* the order instagram, twitter, facebook, linkedin, whose listing holds it;
\* absent listings are passed over.
C8_Attribution ==
    MapDone =>
        \A i \in 1..Len(df) :
            df[i].platform =
                IF Listers(df[i].post_id) = {} THEN "General"
                ELSE NameClaimed(ScanOrderClaimed[LastLister(df[i].post_id)])

\* A comment whose post is listed by two platforms or more, with a listing
\* absent, has been attributed to the last of them.
C8_Witness ==
    /\ MapDone
    /\ \E p \in PlatformNames : ~posts_files[p].exists
    /\ \E i \in 1..Len(df) :
          /\ Cardinality(Listers(df[i].post_id)) >= 2
          /\ df[i].platform =
                NameClaimed(ScanOrderClaimed[LastLister(df[i].post_id)])
          /\ LastLister(df[i].post_id) < Len(ScanOrderClaimed)

IsPrefix(a, b) == Len(a) <= Len(b) /\ a = SubSeq(b, 1, Len(a))

OutputSteps == {"write_detailed", "write_summary", "history"}

\* C9 as stated: no output is written before the run has classified,
\* attributed and aggregated the whole snapshot.
C9_NoOutputBeforeAggregation ==
    \A k \in 1..Len(steps) :
        steps[k] \in OutputSteps => \E j \in 1..(k - 1) : steps[j] = "aggregate"

\* The order of the steps in the code.
CodeOrder ==
    << "load", "classify", "map", "language", "write_detailed", "aggregate",
       "write_summary", "history" >>

\* C9 as amended: the steps of a run happen in the order sentiment
\* classification, attribution, language detection, detailed table,
\* aggregation, summary, history; the detailed table holds the whole
\* classified, attributed and language-tagged snapshot and is written before
\* the aggregation, the summary and the history after it.
C9_CodeOrder ==
    /\ IsPrefix(steps, CodeOrder)
    /\ pc = "done" => steps = CodeOrder
    /\ (\E k \in 1..Len(steps) : steps[k] = "write_detailed")
       => /\ detailed_file = FileOf(df)
          /\ Len(df) = Len(seen.rows)
          /\ \A i \in 1..Len(df) :
                /\ df[i].post_id = seen.rows[i].post_id
                /\ df[i].comment_text = seen.rows[i].comment_text
                /\ df[i].label # Unset
                /\ df[i].platform # Unset
                /\ df[i].language # Unset
    /\ (\E k \in 1..Len(steps) : steps[k] = "write_summary")
       => /\ summary_file = FileOf(summary_data)
          /\ { summary_data[k].platform : k \in 1..Len(summary_data) }
                = { df[i].platform : i \in 1..Len(df) }

\* A run has gone through all its steps and has written the history, and
\* the comment table has changed since the run read it.
C9_Witness ==
    /\ pc = "done"
    /\ steps = CodeOrder
    /\ history_file # run_start.history_file
    /\ comments_file # seen

HeaderCount ==
    Cardinality({ i \in 1..Len(history_file.rows) :
                    history_file.rows[i] = HeaderLine })

\* C10: the check and the append are not atomic: two overlapping calls in
\* one minute can both append, which leaves two records for one (platform,
\* minute) pair and, on a log that did not exist, two header lines; without
\* an overlap neither happens.
C10_DuplicatesOnlyWhenOverlapping ==
    (DuplicateRecord \/ HeaderCount > 1) => overlapped

\* Two calls have both appended: a pair is recorded twice and the log has
\* two header lines.
C10_Witness == DuplicateRecord /\ HeaderCount = 2

=============================================================================
